---- MODULE Spec2Model ----
(***************************************************************************)
(* Model of the two LUKS suspend orchestrators of the Debian packaging:    *)
(*   debian/scripts/suspend/cryptsetup-suspend.c   (prog = "cryptsetup")   *)
(*   debian/cryptroot-suspend/cryptroot-suspend.c  (prog = "cryptroot")    *)
(* Each main() is a straight-line sequence of external calls.  One action  *)
(* models one step of main(); the result of every external call (access,   *)
(* fopen, fgetc, fputs, setpriority, malloc, mlock, crypt_init_by_name,    *)
(* crypt_suspend) is chosen nondeterministically among the results the     *)
(* call can give.  err()/errx()/usage() end the process at once with       *)
(* status EXIT_FAILURE; they run no cleanup code of the program.           *)
(*                                                                         *)
(* stdio buffers the characters given to fputs until fclose or exit; the   *)
(* transfer therefore happens at line 86 (disable), 140 ("mem") and at     *)
(* process exit (restore), which is the same place in the order of the     *)
(* external calls as the fputs itself.  The model lets the file change     *)
(* when fputs succeeds.                                                    *)
(***************************************************************************)
EXTENDS Integers, Sequences, FiniteSets, TLC

VARIABLES
    prog,                  \* which of the two programs runs
    argv,                  \* argv[k+1] is C's argv[k]
    knobExists,            \* /sys/power/sync_on_suspend exists
    knobWritable,          \* access(W_OK) on it succeeds
    knob,                  \* content of the knob file, a sequence of characters
    knob0,                 \* content of the knob file when the run started
    pc,                    \* position in main()
    reverse, d_size, devices, i, rv,
    sync_on_suspend_reset, sos_c,
    mem,                   \* state of the buffer of lines 107-117
    status,                \* exit status, NoStatus while the process runs
    trace,                 \* external actions performed so far, in order
    max_memory_kb,         \* pbkdf->max_memory_kb of the library, a uint32_t
    page_size,             \* what getpagesize() returns
    malloc_addr,           \* the address malloc returns when it succeeds
    argon2i_mem_size,      \* the int of line 96
    touched,               \* addresses written by the loop of lines 116-117
    cd,                    \* the handle of the current loop pass, NULL if none
    held,                  \* device handles obtained and not yet freed
    suspended              \* names of the devices the kernel has suspended

vars == <<prog, argv, knobExists, knobWritable, knob, knob0, pc, reverse,
          d_size, devices, i, rv, sync_on_suspend_reset, sos_c, mem, status,
          trace, max_memory_kb, page_size, malloc_addr, argon2i_mem_size,
          touched, cd, held, suspended>>

\* The environment of the reservation, fixed for a run.
memEnv == <<max_memory_kb, page_size, malloc_addr>>

\* What the device loop keeps besides i and rv.
devVars == <<cd, held, suspended>>

\* ---------------------------------------------------------------- bounds
MaxDevs == 3

\* The largest of the small max_memory_kb values the reservation is tried
\* with, and the one value used where the device loop is explored in full.
MaxMemKb == 9

LoopMemKb == 8

DevNames == {"ctest1", "ctest2", "ctest3"}

\* The option of cryptsetup-suspend; cryptroot-suspend has none.
Flags == {<<>>, <<"-r">>, <<"--reverse">>}

RECURSIVE SeqsUpTo(_, _)
SeqsUpTo(S, n) ==
    IF n = 0 THEN {<<>>}
    ELSE LET shorter == SeqsUpTo(S, n - 1)
         IN  shorter \cup {Append(s, x) : s \in shorter, x \in S}

\* Contents the knob file is tried with: the two the kernel produces
\* ("0\n", "1\n"), the bare characters, an empty file and a foreign value.
KnobContents ==
    {<<"0", "\n">>, <<"1", "\n">>, <<"0">>, <<"1">>, <<>>, <<"2", "\n">>}

\* A knob the process may not write is never read: two contents stand for
\* all of them.
UnwritableContents == {<<"1", "\n">>, <<"2", "\n">>}

\* max_memory_kb values: the small ones, and 2 GiB and 4 GiB in kilobytes,
\* where the byte count no longer fits the int it is kept in.
MemKbs == (0..MaxMemKb) \cup {2097152, 4194304}

PageSizes == {4096, 16384}

\* Addresses malloc may return: page-aligned, 16 bytes past a page start
\* (an mmap-ed chunk behind its header) and a 16-byte aligned address in
\* the middle of a page.
MallocAddrs == {65536, 65552, 67584}

\* ------------------------------------------------------------- constants
EXIT_FAILURE == 1
NoStatus == -1
EOF == "EOF"
NULL == <<>>

\* ---------------------------------------------------------------- helpers
argc == Len(argv)

ArgvC(k) == argv[k + 1]

Event(op, arg, res) == [op |-> op, arg |-> arg, res |-> res]

\* ------------------------------------------------------------------- Init
\* The state main() starts in, for the given sets of inputs.
InitWith(devLists, kbs, pageSizes, addrs) ==
    /\ prog \in {"cryptsetup", "cryptroot"}
    /\ \E f \in Flags, ds \in devLists :
           /\ (prog = "cryptroot") => (f = <<>>)
           /\ argv = <<prog>> \o f \o ds
    /\ knobExists \in BOOLEAN
    /\ knobWritable \in BOOLEAN
    /\ knob \in KnobContents
    /\ (~knobExists) => (knob = <<>> /\ ~knobWritable)
    /\ (knobExists /\ ~knobWritable) => knob \in UnwritableContents
    /\ knob0 = knob
    /\ pc = IF prog = "cryptsetup" THEN "args" ELSE "access"
    /\ reverse = FALSE
    /\ d_size = 0
    /\ devices = <<>>
    /\ i = 0
    /\ rv = 0
    /\ sync_on_suspend_reset = FALSE
    /\ sos_c = EOF
    /\ mem = "none"
    /\ status = NoStatus
    /\ trace = <<>>
    /\ max_memory_kb \in kbs
    /\ page_size \in pageSizes
    /\ malloc_addr \in addrs
    /\ argon2i_mem_size = 0
    /\ touched = {}
    /\ cd = NULL
    /\ held = {}
    /\ suspended = {}

\* Every device list up to MaxDevs, one reservation environment.
Init == InitWith(SeqsUpTo(DevNames, MaxDevs), {LoopMemKb}, {4096}, {65552})

\* Every reservation environment, device lists of at most one name.
MemInit == InitWith(SeqsUpTo(DevNames, 1), MemKbs, PageSizes, MallocAddrs)

\* ------------------------------------------------- process termination
\* Variant for C9: the fatal exit hands back the accumulated status.
FatalReturnsRv ==
    /\ pc' = "exit"
    /\ status' = rv

\* err(EXIT_FAILURE, ...), errx(EXIT_FAILURE, ...): the process ends here.
Fatal ==
    /\ pc' = "exit"
    /\ status' = EXIT_FAILURE

\* ------------------------------------------- cryptsetup-suspend: arguments
IsReverseFlag(a) == a = "-r" \/ a = "--reverse"

\* usage() is reached: no argument, or the flag and no device.
UsageError == argc < 2 \/ (IsReverseFlag(ArgvC(1)) /\ argc < 3)

ParsedReverse == IsReverseFlag(ArgvC(1))

ParsedSize == IF ParsedReverse THEN argc - 2 ELSE argc - 1

\* Variant for C5: the reverse branch copies in the forward direction.
ReadDevicesForward(rev, n) ==
    [k \in 1..n |-> ArgvC(k + (IF rev THEN 1 ELSE 0))]

\* The devices array; element k of the sequence is C's devices[k-1].
ReadDevices(rev, n) ==
    IF ~rev THEN [k \in 1..n |-> ArgvC((k - 1) + 1)]
    ELSE [k \in 1..n |-> ArgvC(argc - (k - 1) - 1)]

ParseArgs ==
    /\ pc = "args"
    /\ prog = "cryptsetup"
    /\ IF UsageError
       THEN /\ pc' = "exit"
            /\ status' = 1
            /\ UNCHANGED <<reverse, d_size, devices>>
       ELSE /\ reverse' = ParsedReverse
            /\ d_size' = ParsedSize
            /\ devices' = ReadDevices(ParsedReverse, ParsedSize)
            /\ pc' = "access"
            /\ UNCHANGED status
    /\ UNCHANGED <<memEnv, argon2i_mem_size, touched, devVars,
                   prog, argv, knobExists, knobWritable, knob, knob0, i, rv,
                   sync_on_suspend_reset, sos_c, mem, trace>>

\* --------------------------------------------------- sync_on_suspend knob
\* access(path, W_OK) < 0: the knob is left alone, whatever errno says.
AccessFails == ~knobExists \/ ~knobWritable

AccessKnob ==
    /\ pc = "access"
    /\ pc' = IF AccessFails THEN "setpriority" ELSE "fopen"
    /\ trace' = Append(trace, Event("detect", "",
                    IF ~knobExists THEN "ENOENT"
                    ELSE IF ~knobWritable THEN "EACCES" ELSE "ok"))
    /\ UNCHANGED <<memEnv, argon2i_mem_size, touched, devVars,
                   prog, argv, knobExists, knobWritable, knob, knob0, reverse,
                   d_size, devices, i, rv, sync_on_suspend_reset, sos_c, mem,
                   status>>

OpenKnob ==
    /\ pc = "fopen"
    /\ \E opened \in BOOLEAN :
          IF opened
          THEN pc' = "fgetc" /\ UNCHANGED status
          ELSE Fatal
    /\ UNCHANGED <<memEnv, argon2i_mem_size, touched, devVars,
                   prog, argv, knobExists, knobWritable, knob, knob0, reverse,
                   d_size, devices, i, rv, sync_on_suspend_reset, sos_c, mem,
                   trace>>

\* The n-th fgetc on the freshly opened stream.
Fgetc(n, ioerr) == IF ioerr \/ Len(knob) < n THEN EOF ELSE knob[n]

ReadKnob ==
    /\ pc = "fgetc"
    /\ \E ioerr \in BOOLEAN :
          /\ sos_c' = Fgetc(1, ioerr)
          /\ trace' = Append(trace, Event("read", "",
                          IF ioerr THEN "ioerr"
                          ELSE IF Fgetc(2, ioerr) = EOF THEN "short" ELSE "ok"))
          /\ IF Fgetc(2, ioerr) = EOF
             THEN Fatal
             ELSE pc' = "toggle" /\ UNCHANGED status
    /\ UNCHANGED <<memEnv, argon2i_mem_size, touched, devVars,
                   prog, argv, knobExists, knobWritable, knob, knob0, reverse,
                   d_size, devices, i, rv, sync_on_suspend_reset, mem>>

\* What the kernel shows after a value was stored in the knob.
Stored(c) == <<c, "\n">>

\* Lines 76-86: '0' is left alone, '1' is switched off, anything else ends
\* the run.  The stream is closed on the two paths that go on.
\* fputs follows two fgetc on the same "r+" stream with no positioning call
\* in between, which C leaves undefined; what the build can give is a write
\* that succeeds or one that fails, and both are taken here.  A successful
\* fputs returns a positive value (glibc returns 1), so "<= 0" is a failure.
ToggleKnob ==
    /\ pc = "toggle"
    /\ IF sos_c = "0"
       THEN /\ pc' = "setpriority"
            /\ UNCHANGED <<sync_on_suspend_reset, knob, trace, status>>
       ELSE IF sos_c = "1"
       THEN /\ sync_on_suspend_reset' = TRUE
            /\ \E written \in BOOLEAN :
                  IF written
                  THEN /\ knob' = Stored("0")
                       /\ trace' = Append(trace, Event("disable", "", "ok"))
                       /\ pc' = "setpriority"
                       /\ UNCHANGED status
                  ELSE /\ trace' = Append(trace, Event("disable", "", "fail"))
                       /\ Fatal
                       /\ UNCHANGED knob
       ELSE /\ Fatal
            /\ UNCHANGED <<sync_on_suspend_reset, knob, trace>>
    /\ UNCHANGED <<memEnv, argon2i_mem_size, touched, devVars,
                   prog, argv, knobExists, knobWritable, knob0, reverse,
                   d_size, devices, i, rv, sos_c, mem>>

\* ------------------------------------------------------- process priority
\* Variant for C17: a failed setpriority ends the run.
SetPriorityFatal ==
    /\ pc = "setpriority"
    /\ \E raised \in BOOLEAN :
          /\ trace' = Append(trace, Event("priority", "",
                                          IF raised THEN "ok" ELSE "fail"))
          /\ IF raised
             THEN /\ pc' = IF prog = "cryptsetup" THEN "pbkdf" ELSE "sync"
                  /\ UNCHANGED status
             ELSE Fatal
    /\ UNCHANGED <<memEnv, argon2i_mem_size, touched, devVars,
                   prog, argv, knobExists, knobWritable, knob, knob0, reverse,
                   d_size, devices, i, rv, sync_on_suspend_reset, sos_c, mem>>

\* setpriority(PRIO_PROCESS, 0, -20) == -1 only warns.
SetPriority ==
    /\ pc = "setpriority"
    /\ \E raised \in BOOLEAN :
          trace' = Append(trace, Event("priority", "",
                                       IF raised THEN "ok" ELSE "fail"))
    /\ pc' = IF prog = "cryptsetup" THEN "pbkdf" ELSE "sync"
    /\ UNCHANGED <<memEnv, argon2i_mem_size, touched, devVars,
                   prog, argv, knobExists, knobWritable, knob, knob0, reverse,
                   d_size, devices, i, rv, sync_on_suspend_reset, sos_c, mem,
                   status>>

\* ----------------------------------- cryptsetup-suspend: memory for resume
\* pbkdf->max_memory_kb * 1024 is a uint32_t product, taken modulo 2^32, and
\* lands in an int: values from 2^31 on come out negative.  With
\* 2^32 = 1024 * 4194304 the product is 1024 * (kb % 4194304).
MemSizeInt(kb) ==
    LET low == kb % 4194304
    IN  IF low >= 2097152 THEN (low - 4194304) * 1024 ELSE low * 1024

GetPbkdf ==
    /\ pc = "pbkdf"
    /\ \E found \in BOOLEAN :
          IF found
          THEN /\ argon2i_mem_size' = MemSizeInt(max_memory_kb)
               /\ pc' = "malloc"
               /\ UNCHANGED <<status, trace>>
          ELSE /\ trace' = Append(trace, Event("reserve", "", "nopbkdf"))
               /\ Fatal
               /\ UNCHANGED argon2i_mem_size
    /\ UNCHANGED <<memEnv, touched, devVars,
                   prog, argv, knobExists, knobWritable, knob, knob0, reverse,
                   d_size, devices, i, rv, sync_on_suspend_reset, sos_c, mem>>

\* malloc takes a size_t: a negative int arrives as a size above PTRDIFF_MAX,
\* which no malloc grants.  malloc(0) may give NULL or a pointer.
CanAlloc(n) == n >= 0

AllocMem ==
    /\ pc = "malloc"
    /\ \E got \in BOOLEAN :
          IF got /\ CanAlloc(argon2i_mem_size)
          THEN pc' = "mlock" /\ mem' = "allocated"
               /\ UNCHANGED <<status, trace>>
          ELSE /\ trace' = Append(trace, Event("reserve", "", "nomem"))
               /\ Fatal
               /\ UNCHANGED mem
    /\ UNCHANGED <<memEnv, argon2i_mem_size, touched, devVars,
                   prog, argv, knobExists, knobWritable, knob, knob0, reverse,
                   d_size, devices, i, rv, sync_on_suspend_reset, sos_c>>

\* Variant for C14: a failed mlock is reported and the run goes on.
LockMemDegraded ==
    /\ pc = "mlock"
    /\ \E locked \in BOOLEAN :
          IF locked
          THEN pc' = "touch" /\ mem' = "locked"
               /\ UNCHANGED <<status, trace>>
          ELSE /\ trace' = Append(trace, Event("reserve", "", "nolock"))
               /\ pc' = "touch"
               /\ UNCHANGED <<mem, status>>
    /\ UNCHANGED <<memEnv, argon2i_mem_size, touched, devVars,
                   prog, argv, knobExists, knobWritable, knob, knob0, reverse,
                   d_size, devices, i, rv, sync_on_suspend_reset, sos_c>>

LockMem ==
    /\ pc = "mlock"
    /\ \E locked \in BOOLEAN :
          IF locked
          THEN pc' = "touch" /\ mem' = "locked"
               /\ UNCHANGED <<status, trace>>
          ELSE /\ trace' = Append(trace, Event("reserve", "", "nolock"))
               /\ Fatal
               /\ UNCHANGED mem
    /\ UNCHANGED <<memEnv, argon2i_mem_size, touched, devVars,
                   prog, argv, knobExists, knobWritable, knob, knob0, reverse,
                   d_size, devices, i, rv, sync_on_suspend_reset, sos_c>>

\* for (i = 0; i < argon2i_mem_size; i += page_size) mem[i] = 0;
\* the addresses written, from offset k on.  The size is not negative here
\* (malloc succeeded), so the size_t comparison is the plain one.
RECURSIVE TouchLoop(_, _)
TouchLoop(k, acc) ==
    IF k < argon2i_mem_size
    THEN TouchLoop(k + page_size, acc \cup {malloc_addr + k})
    ELSE acc

TouchMem ==
    /\ pc = "touch"
    /\ mem' = "touched"
    /\ touched' = TouchLoop(0, {})
    /\ trace' = Append(trace, Event("reserve", "", "ok"))
    /\ pc' = "sync"
    /\ UNCHANGED <<memEnv, argon2i_mem_size, devVars,
                   prog, argv, knobExists, knobWritable, knob, knob0, reverse,
                   d_size, devices, i, rv, sync_on_suspend_reset, sos_c,
                   status>>

\* -------------------------------------------------------- filesystem sync
\* Variant for C12: the sync() call is missing.
SyncMissing ==
    /\ pc = "sync"
    /\ i' = IF prog = "cryptsetup" THEN 0 ELSE 1
    /\ pc' = "loop"
    /\ UNCHANGED <<memEnv, argon2i_mem_size, touched, devVars,
                   prog, argv, knobExists, knobWritable, knob, knob0, reverse,
                   d_size, devices, rv, sync_on_suspend_reset, sos_c, mem,
                   status, trace>>

\* The loop variable of the device loop is set up with the sync step.
\* Variant for C23: the loop of cryptroot-suspend starts one argument late
\* and leaves out the first device.
FirstIndexLate == IF prog = "cryptsetup" THEN 0 ELSE 2

FirstIndex == IF prog = "cryptsetup" THEN 0 ELSE 1

Sync ==
    /\ pc = "sync"
    /\ trace' = Append(trace, Event("sync", "", "ok"))
    /\ i' = FirstIndex
    /\ pc' = "loop"
    /\ UNCHANGED <<memEnv, argon2i_mem_size, touched, devVars,
                   prog, argv, knobExists, knobWritable, knob, knob0, reverse,
                   d_size, devices, rv, sync_on_suspend_reset, sos_c, mem,
                   status>>

\* ---------------------------------------------------------- device loop
\* What one pass of the loop body can meet: crypt_init_by_name fails (the
\* || then skips crypt_suspend), crypt_suspend fails, or both succeed.
Outcomes == {"initfail", "suspfail", "ok"}

\* crypt_init_by_name(&cd, name) || crypt_suspend(cd, name)
AttemptFailed(out) == out # "ok"

\* Variant for C2: the status of the last device overwrites the others.
SuspendRvLast(old, out) == IF AttemptFailed(out) THEN EXIT_FAILURE ELSE 0

\* cryptsetup-suspend.c lines 129-132
SuspendRv(old, out) == IF AttemptFailed(out) THEN EXIT_FAILURE ELSE old

\* cryptroot-suspend.c lines 64-67
RootRv(old, out) == IF AttemptFailed(out) THEN old ELSE EXIT_FAILURE

\* Variant for C4: the loop is left at the first recorded failure.
LoopStopsOnFailure ==
    (IF prog = "cryptsetup" THEN i < d_size ELSE i < argc) /\ rv = 0

\* Loop condition of the device loop.
LoopGoesOn ==
    IF prog = "cryptsetup" THEN i < d_size ELSE i < argc

\* The name handed to the library in this pass.
LoopDevice ==
    IF prog = "cryptsetup" THEN devices[i + 1] ELSE ArgvC(i)

\* The handle crypt_init_by_name stores in cd in pass k; cd stays NULL when
\* the call fails.
Handle(k) == <<k>>

CdAfter(out) == IF out = "initfail" THEN NULL ELSE Handle(i)

\* crypt_suspend succeeded: the kernel has suspended the device.
SuspendedAfter(out) ==
    IF out = "ok" THEN suspended \cup {LoopDevice} ELSE suspended

\* Lines 128-132: the pass up to the crypt_free call.
SuspendDevice ==
    /\ pc = "loop"
    /\ prog = "cryptsetup"
    /\ LoopGoesOn
    /\ \E out \in Outcomes :
          /\ rv' = SuspendRv(rv, out)
          /\ trace' = Append(trace, Event("suspend", LoopDevice, out))
          /\ cd' = CdAfter(out)
          /\ held' = IF CdAfter(out) = NULL THEN held
                     ELSE held \cup {CdAfter(out)}
          /\ suspended' = SuspendedAfter(out)
    /\ pc' = "free"
    /\ UNCHANGED <<memEnv, argon2i_mem_size, touched,
                   prog, argv, knobExists, knobWritable, knob, knob0, i,
                   reverse, d_size, devices, sync_on_suspend_reset, sos_c,
                   mem, status>>

\* cryptroot-suspend.c lines 63-67: the pass up to the crypt_free call.
RootSuspendDevice ==
    /\ pc = "loop"
    /\ prog = "cryptroot"
    /\ LoopGoesOn
    /\ \E out \in Outcomes :
          /\ rv' = RootRv(rv, out)
          /\ trace' = Append(trace, Event("suspend", LoopDevice, out))
          /\ cd' = CdAfter(out)
          /\ held' = IF CdAfter(out) = NULL THEN held
                     ELSE held \cup {CdAfter(out)}
          /\ suspended' = SuspendedAfter(out)
    /\ pc' = "free"
    /\ UNCHANGED <<memEnv, argon2i_mem_size, touched,
                   prog, argv, knobExists, knobWritable, knob, knob0, i,
                   reverse, d_size, devices, sync_on_suspend_reset, sos_c,
                   mem, status>>

\* Variant for C18: the handle is not given back.
FreedNothing(h, c) == h

\* crypt_free(cd); crypt_free(NULL) does nothing.
Freed(h, c) == h \ {c}

\* Line 133 and the i++ of the loop; cd ends with the pass.
FreeDevice ==
    /\ pc = "free"
    /\ held' = Freed(held, cd)
    /\ cd' = NULL
    /\ i' = i + 1
    /\ pc' = "loop"
    /\ UNCHANGED <<memEnv, argon2i_mem_size, touched, suspended,
                   prog, argv, knobExists, knobWritable, knob, knob0,
                   reverse, d_size, devices, rv, sync_on_suspend_reset, sos_c,
                   mem, status, trace>>

\* ------------------------------------------------------- suspend to RAM
\* fopen("/sys/power/state", "w") and fputs("mem", s); fclose returns after
\* the machine woke up again.
SuspendToRam ==
    /\ pc = "loop"
    /\ ~LoopGoesOn
    /\ \E out \in {"openfail", "writefail", "ok"} :
          /\ trace' = Append(trace, Event("s2ram", "", out))
          /\ IF out = "ok"
             THEN pc' = "restore" /\ UNCHANGED status
             ELSE Fatal
    /\ UNCHANGED <<memEnv, argon2i_mem_size, touched, devVars,
                   prog, argv, knobExists, knobWritable, knob, knob0, reverse,
                   d_size, devices, i, rv, sync_on_suspend_reset, sos_c, mem>>

\* ------------------------------------------------------ restore and return
\* Variant for C6: the restore writes the disabled value again.
RestoreValueOff == "0"

\* fputs("1", sos)
RestoreValue == "1"

\* Variant for C19: the unwinding also gives the buffer back and resumes
\* the devices.
RestoreKnobReleases ==
    /\ pc = "restore"
    /\ IF sync_on_suspend_reset
       THEN \E out \in {"openfail", "writefail", "ok"} :
               /\ trace' = Append(trace, Event("restore", "", out))
               /\ IF out = "ok"
                  THEN /\ knob' = Stored("1")
                       /\ pc' = "exit"
                       /\ status' = rv
                  ELSE /\ Fatal
                       /\ UNCHANGED knob
       ELSE /\ pc' = "exit"
            /\ status' = rv
            /\ UNCHANGED <<knob, trace>>
    /\ mem' = "none"
    /\ suspended' = {}
    /\ UNCHANGED <<memEnv, argon2i_mem_size, touched, cd, held,
                   prog, argv, knobExists, knobWritable, knob0, reverse,
                   d_size, devices, i, rv, sync_on_suspend_reset, sos_c>>

\* Variant for C22: the enabled value is written back whether or not the
\* run had disabled the knob.
RestoreKnobAlways ==
    /\ pc = "restore"
    /\ \E out \in {"openfail", "writefail", "ok"} :
          /\ trace' = Append(trace, Event("restore", "", out))
          /\ IF out = "ok"
             THEN /\ knob' = Stored("1")
                  /\ pc' = "exit"
                  /\ status' = rv
             ELSE /\ Fatal
                  /\ UNCHANGED knob
    /\ UNCHANGED <<memEnv, argon2i_mem_size, touched, devVars,
                   prog, argv, knobExists, knobWritable, knob0, reverse,
                   d_size, devices, i, rv, sync_on_suspend_reset, sos_c, mem>>

RestoreKnob ==
    /\ pc = "restore"
    /\ IF sync_on_suspend_reset
       THEN \E out \in {"openfail", "writefail", "ok"} :
               /\ trace' = Append(trace, Event("restore", "", out))
               /\ IF out = "ok"
                  THEN /\ knob' = Stored(RestoreValue)
                       /\ pc' = "exit"
                       /\ status' = rv
                  ELSE /\ Fatal
                       /\ UNCHANGED knob
       ELSE /\ pc' = "exit"
            /\ status' = rv
            /\ UNCHANGED <<knob, trace>>
    /\ UNCHANGED <<memEnv, argon2i_mem_size, touched, devVars,
                   prog, argv, knobExists, knobWritable, knob0, reverse,
                   d_size, devices, i, rv, sync_on_suspend_reset, sos_c, mem>>

Next ==
    \/ ParseArgs
    \/ AccessKnob
    \/ OpenKnob
    \/ ReadKnob
    \/ ToggleKnob
    \/ SetPriority
    \/ GetPbkdf
    \/ AllocMem
    \/ LockMem
    \/ TouchMem
    \/ Sync
    \/ SuspendDevice
    \/ RootSuspendDevice
    \/ FreeDevice
    \/ SuspendToRam
    \/ RestoreKnob

Spec == Init /\ [][Next]_vars

\* The same program over every reservation environment.
MemSpec == MemInit /\ [][Next]_vars

\* ==================================================== reading the trace
\* Positions of the trace that hold an event of the given kind.
At(op) == {k \in DOMAIN trace : trace[k].op = op}

Did(op, res) == \E k \in At(op) : trace[k].res = res

IsSuspend(e) == e.op = "suspend"

\* The suspend attempts made so far, in order, and their device names.
AttemptEvents == SelectSeq(trace, IsSuspend)

Attempted == [k \in DOMAIN AttemptEvents |-> AttemptEvents[k].arg]

\* The device list the caller supplied, read off the command line.
FlagGiven == prog = "cryptsetup" /\ argc >= 2 /\ argv[2] \in {"-r", "--reverse"}

Supplied == IF FlagGiven THEN SubSeq(argv, 3, argc) ELSE SubSeq(argv, 2, argc)

Reversed(s) == [k \in 1..Len(s) |-> s[Len(s) - k + 1]]

Count(x, s) == Cardinality({k \in DOMAIN s : s[k] = x})

IsPrefix(s, t) == Len(s) <= Len(t) /\ SubSeq(t, 1, Len(s)) = s

Exited == pc = "exit"

\* The device loop has been left: the suspend-to-RAM step was entered.
LoopDone == At("s2ram") # {}

EveryDeviceSuspended ==
    /\ Len(AttemptEvents) = Len(Supplied)
    /\ \A k \in DOMAIN AttemptEvents : AttemptEvents[k].res = "ok"

AnyDeviceFailed == \E k \in DOMAIN AttemptEvents : AttemptEvents[k].res # "ok"

S2ramOk == Did("s2ram", "ok")

RestoreFailed == Did("restore", "openfail") \/ Did("restore", "writefail")

\* What a caller can see of the knob: absent, enabled, disabled or foreign.
KnobObs(content) ==
    IF ~knobExists THEN "absent"
    ELSE IF Len(content) > 0 /\ content[1] = "1" THEN "enabled"
    ELSE IF Len(content) > 0 /\ content[1] = "0" THEN "disabled"
    ELSE "other"

\* ================================================================ claims

\* C1: on every exit path the knob restore runs: whenever the run wrote the
\* disabled value to the knob, the process has, when it exits, written the
\* enabled value back, and that write is the last action of the run.
C1_RestoreOnEveryExit ==
    (Exited /\ Did("disable", "ok")) =>
        /\ Len(trace) > 0
        /\ trace[Len(trace)] = Event("restore", "", "ok")
        /\ Cardinality(At("restore")) = 1

C3_RootExitStatus ==
    (Exited /\ prog = "cryptroot") =>
        /\ AnyDeviceFailed => status # 0
        /\ (EveryDeviceSuspended /\ S2ramOk /\ ~RestoreFailed) => status = 0

\* C4: once the device-suspend step is reached every device of the supplied
\* list gets exactly one suspend attempt, whatever the other attempts
\* gave: the loop is never left early (the process does not exit between the
\* sync and the suspend-to-RAM step), no name is attempted more often than
\* the caller listed it, and when the loop is left each name was attempted
\* as often as it was listed.
C4_EveryDeviceOnce ==
    LET a == Attempted
        names == {Supplied[k] : k \in DOMAIN Supplied} \cup {a[k] : k \in DOMAIN a}
    IN  /\ (Exited /\ At("sync") # {}) => LoopDone
        /\ IF LoopDone
           THEN \A x \in names : Count(x, a) = Count(x, Supplied)
           ELSE \A x \in names : Count(x, a) <= Count(x, Supplied)

C4_Witness ==
    /\ LoopDone
    /\ Len(Supplied) = 3
    /\ AttemptEvents[1].res = "ok"
    /\ AttemptEvents[2].res # "ok"
    /\ AttemptEvents[3].res = "ok"

\* C5: in cryptsetup-suspend the attempts follow the caller's list: in the
\* order given without the flag, in the opposite order with it; after
\* parsing the devices array is that list and stays so, and the attempts
\* made so far are always its first elements, all of them once the loop is
\* left.
ExpectedOrder == IF FlagGiven THEN Reversed(Supplied) ELSE Supplied

C5_AttemptOrder ==
    (prog = "cryptsetup" /\ pc # "args" /\ Len(Supplied) > 0) =>
        /\ reverse = FlagGiven
        /\ devices = ExpectedOrder
        /\ IsPrefix(Attempted, ExpectedOrder)
        /\ LoopDone => Attempted = ExpectedOrder

C5_Witness ==
    /\ prog = "cryptsetup"
    /\ argv = <<"cryptsetup", "-r", "ctest1", "ctest2", "ctest3">>
    /\ LoopDone
    /\ Attempted = <<"ctest3", "ctest2", "ctest1">>

\* C6: after a run that completed (it returned from main with status 0, or
\* more generally went through the suspend-to-RAM step and the restore
\* without a failure) the knob shows what it showed before the run.
NormalCompletion == Exited /\ S2ramOk /\ ~RestoreFailed

C6_KnobUnchanged ==
    /\ (Exited /\ status = 0) => NormalCompletion
    /\ NormalCompletion => KnobObs(knob) = KnobObs(knob0)

C6_Witness ==
    /\ NormalCompletion
    /\ status = 0
    /\ KnobObs(knob0) = "enabled"
    /\ Did("disable", "ok")
    /\ Did("restore", "ok")

\* C7: the visible actions come in the order detect, disable (when the knob
\* was read as enabled), sync, device attempts, suspend-to-RAM, restore:
\* nothing precedes the detect, the disable is done before the sync, the
\* sync before the first attempt, every attempt before the suspend-to-RAM
\* write, and the restore comes last.  With the knob enabled, devices
\* ctest1 and ctest2 given without the flag and every step succeeding, the
\* visible trace is detect, disable, sync, suspend(ctest1),
\* suspend(ctest2), suspend-to-RAM, restore, and the exit status is 0.
Before(a, b) == \A j \in At(a), k \in At(b) : j < k

IsVisible(e) == e.op \notin {"read", "priority", "reserve"}

Visible ==
    LET v == SelectSeq(trace, IsVisible)
    IN  [k \in DOMAIN v |-> <<v[k].op, v[k].arg>>]

EveryStepOk == \A k \in DOMAIN trace : trace[k].res = "ok"

C7_Scenario ==
    /\ Exited
    /\ knobExists /\ knobWritable /\ knob0 = <<"1", "\n">>
    /\ ~FlagGiven /\ Supplied = <<"ctest1", "ctest2">>
    /\ EveryStepOk /\ S2ramOk /\ Did("restore", "ok")

C7_OrderAndScenario ==
    /\ (Len(trace) > 0) => trace[1].op = "detect"
    /\ Before("detect", "disable")
    /\ Before("disable", "sync")
    /\ (At("sync") # {} /\ sos_c = "1") => Did("disable", "ok")
    /\ Before("sync", "suspend")
    /\ (At("suspend") # {}) => At("sync") # {}
    /\ Before("suspend", "s2ram")
    /\ LoopDone => Len(Attempted) = Len(Supplied)
    /\ Before("s2ram", "restore")
    /\ (At("restore") # {}) => (S2ramOk /\ At("restore") = {Len(trace)})
    /\ C7_Scenario =>
           /\ Visible = << <<"detect", "">>, <<"disable", "">>, <<"sync", "">>,
                           <<"suspend", "ctest1">>, <<"suspend", "ctest2">>,
                           <<"s2ram", "">>, <<"restore", "">> >>
           /\ status = 0

\* C8: with the knob absent, or read as already disabled, the run never
\* writes to the knob (no disable, no restore, the reset flag stays false,
\* the file keeps its content) and the rest of the sequence still runs: the
\* process ends only after the priority step, and after the sync and the
\* whole device loop unless the reservation failed.  With the knob absent
\* and exactly one device failing the exit status is non-zero.
ObservedDisabled == knobExists /\ sos_c = "0" /\ Len(knob0) >= 2

FailedAttempts == {k \in DOMAIN AttemptEvents : AttemptEvents[k].res # "ok"}

ReservationFailed ==
    \E k \in At("reserve") : trace[k].res # "ok"

C8_NoKnobWrite ==
    /\ ((~knobExists \/ ObservedDisabled) /\ ~(prog = "cryptsetup" /\ UsageError)) =>
           /\ At("disable") = {}
           /\ At("restore") = {}
           /\ ~sync_on_suspend_reset
           /\ knob = knob0
           /\ Exited => /\ At("priority") # {}
                        /\ ReservationFailed \/ (At("sync") # {} /\ LoopDone)
    /\ (~knobExists /\ Exited /\ Cardinality(FailedAttempts) = 1) => status # 0

Proceeded == At("sync") # {} \/ At("suspend") # {} \/ At("s2ram") # {}

C10_KnobObservedBeforeSuspend ==
    /\ Proceeded =>
           \/ ~knobExists
           \/ /\ knobExists /\ KnobObs(knob0) = "disabled"
              /\ sos_c = "0" /\ ~sync_on_suspend_reset
           \/ /\ knobExists /\ KnobObs(knob0) = "enabled"
              /\ sos_c = "1" /\ Did("disable", "ok")
    /\ (Exited /\ KnobObs(knob0) = "other") =>
           (status = EXIT_FAILURE /\ ~Proceeded)

\* C11: detection depends only on the first character of the knob file:
\* when the file was read without an I/O error, a first byte '1' makes the
\* run take the enabled branch and a first byte '0' the disabled branch,
\* also for a file that holds nothing but that byte, and any other first
\* byte ends the run in the knob handling.
FirstByte == IF Len(knob0) > 0 THEN knob0[1] ELSE EOF

ReadClean == At("read") # {} /\ ~Did("read", "ioerr")

C11_DetectByFirstByte ==
    ReadClean =>
        /\ (FirstByte = "1") =>
               /\ Did("read", "ok") /\ sos_c = "1"
               /\ (pc # "toggle") => sync_on_suspend_reset
        /\ (FirstByte = "0") =>
               /\ Did("read", "ok") /\ sos_c = "0"
               /\ ~sync_on_suspend_reset
               /\ Exited => At("priority") # {}
        /\ (FirstByte \notin {"0", "1"} /\ pc # "toggle") =>
               (Exited /\ status = EXIT_FAILURE /\ At("priority") = {})

\* C12: a run that attempts a device has synced exactly once: after the
\* priority step, in cryptsetup-suspend after the completed reservation,
\* and before the first attempt; no sync follows an attempt.
C12_SyncOnce ==
    /\ Cardinality(At("sync")) <= 1
    /\ (At("suspend") # {}) =>
           /\ Cardinality(At("sync")) = 1
           /\ At("priority") # {} /\ Before("priority", "sync")
           /\ (prog = "cryptsetup") =>
                  (Did("reserve", "ok") /\ Before("reserve", "sync"))
           /\ Before("sync", "suspend")

C12_Witness ==
    /\ prog = "cryptsetup"
    /\ Len(AttemptEvents) = 2
    /\ Cardinality(At("sync")) = 1
    /\ Did("reserve", "ok")

\* The byte count of line 100 has been computed.
SizeComputed ==
    \/ pc \in {"malloc", "mlock", "touch", "sync", "loop", "free", "restore"}
    \/ Exited /\ At("reserve") # {} /\ ~Did("reserve", "nopbkdf")

\* C13: with a maximum memory of 0 the reservation fails like unavailable
\* parameters: the run gets no further than the parameter query, allocates
\* nothing and reaches neither sync, device loop nor suspend-to-RAM.
C13_ZeroMemoryRejected ==
    (prog = "cryptsetup" /\ max_memory_kb = 0) =>
        /\ ~SizeComputed
        /\ mem = "none"
        /\ ~Proceeded

\* C14: every failure of the reservation (no parameters, no memory, no
\* lock) ends the run at once with a non-zero status, before sync, device
\* attempts and suspend-to-RAM; cryptsetup-suspend gets to the sync only
\* with the buffer allocated, locked and touched.
C14_ReservationFailureFatal ==
    /\ ReservationFailed =>
           (Exited /\ status # 0 /\ ~Proceeded /\ mem # "touched")
    /\ (prog = "cryptsetup" /\ Proceeded) =>
           (mem = "touched" /\ Did("reserve", "ok"))

C14_Witness ==
    /\ Exited
    /\ Did("reserve", "nolock")
    /\ mem = "allocated"
    /\ status = EXIT_FAILURE
    /\ ~Proceeded

\* C15: after the reservation every page that overlaps the buffer holds an
\* address the loop wrote, whatever the size, page size and start address.
PageOf(a) == a \div page_size

BufferPages ==
    IF argon2i_mem_size <= 0 THEN {}
    ELSE PageOf(malloc_addr) .. PageOf(malloc_addr + argon2i_mem_size - 1)

TouchedPages == {PageOf(a) : a \in touched}

C15_EveryPageTouched ==
    (mem = "touched") => BufferPages \subseteq TouchedPages

\* C16: the byte count kept in argon2i_mem_size is max_memory_kb * 1024 for
\* every max_memory_kb: not negative, a multiple of 1024, and the quotient
\* is max_memory_kb.
C16_SizeIsKbTimes1024 ==
    (prog = "cryptsetup" /\ SizeComputed) =>
        /\ argon2i_mem_size >= 0
        /\ argon2i_mem_size % 1024 = 0
        /\ argon2i_mem_size \div 1024 = max_memory_kb

\* C17: a failed priority change does not alter the run: right after the
\* priority step, whatever its result, the process is at the step that
\* follows it and has not exited, and the exit status is the one the other
\* outcomes give (EXIT_FAILURE for a fatal error, else the status the
\* device loop accumulated).
AccumulatedRv ==
    IF prog = "cryptsetup"
    THEN (IF AnyDeviceFailed THEN EXIT_FAILURE ELSE 0)
    ELSE (IF \E k \in DOMAIN AttemptEvents : AttemptEvents[k].res = "ok"
          THEN EXIT_FAILURE ELSE 0)

StatusWithoutPriority ==
    IF S2ramOk /\ ~RestoreFailed THEN AccumulatedRv ELSE EXIT_FAILURE

C17_PriorityFailureHarmless ==
    /\ (Len(trace) > 0 /\ trace[Len(trace)].op = "priority") =>
           /\ pc \in (IF prog = "cryptsetup"
                      THEN {"pbkdf", "malloc", "mlock", "touch"}
                      ELSE {"sync"})
           /\ status = NoStatus
    /\ Exited => status = StatusWithoutPriority

C17_Witness ==
    /\ Exited
    /\ prog = "cryptsetup"
    /\ Did("priority", "fail")
    /\ Did("reserve", "ok")
    /\ Len(Supplied) = 2 /\ EveryDeviceSuspended
    /\ Did("restore", "ok")
    /\ status = 0

\* C18: the handle of a pass is given back before the next pass, whatever
\* the pass met: never more than one handle is held, a handle is held only
\* between the attempt and the crypt_free of the same pass, and none is held
\* from the suspend-to-RAM step on.
C18_HandleReleased ==
    /\ Cardinality(held) <= 1
    /\ (pc # "free") => held = {}
    /\ (pc = "free") => held = (IF cd = NULL THEN {} ELSE {cd})
    /\ LoopDone => held = {}

C18_Witness ==
    /\ pc = "loop"
    /\ Len(AttemptEvents) = 2
    /\ AttemptEvents[1].res = "suspfail"
    /\ AttemptEvents[2].res = "ok"
    /\ held = {}

\* C19: nothing but the knob is unwound: the devices whose suspend
\* succeeded stay suspended through the restore and to the exit, and the
\* buffer of cryptsetup-suspend, once reserved, stays allocated and locked.
OkNames ==
    {AttemptEvents[k].arg :
        k \in {j \in DOMAIN AttemptEvents : AttemptEvents[j].res = "ok"}}

C19_RestoreOnlyKnob ==
    /\ suspended = OkNames
    /\ (prog = "cryptsetup" /\ Did("reserve", "ok")) => mem = "touched"

C19_Witness ==
    /\ Exited
    /\ Did("restore", "ok")
    /\ suspended = {"ctest1", "ctest2"}
    /\ mem = "touched"

\* C20: whenever the knob exists it shows "disabled" from the first device
\* attempt, through the suspend-to-RAM write, until the restore.
C20_KnobOffWhileSuspending ==
    (knobExists /\ (At("suspend") # {} \/ At("s2ram") # {})
                /\ ~Did("restore", "ok")) =>
        KnobObs(knob) = "disabled"

\* The run is past knob handling and, in cryptsetup-suspend, past a
\* reservation that succeeded.
PastReservation ==
    IF prog = "cryptsetup" THEN Did("reserve", "ok") ELSE At("priority") # {}

\* The suspend-to-RAM request has been made, once, after an attempt on every
\* supplied device.
S2ramIssued ==
    /\ Cardinality(At("s2ram")) = 1
    /\ Len(AttemptEvents) = Len(Supplied)
    /\ Before("suspend", "s2ram")

\* C21: a run that is past knob handling and reservation always issues the
\* suspend-to-RAM request once the device loop is over, whatever the device
\* outcomes were, and a device failure shows in the exit status: a run that
\* slept and exits after a failed device suspend exits non-zero.
C21_SleepDespiteFailures ==
    /\ (PastReservation /\ pc \in {"restore", "exit"}) => S2ramIssued
    /\ (Exited /\ S2ramOk /\ AnyDeviceFailed) => status # 0

\* C22: the enabled value is written to the knob only after the run has
\* read the knob as enabled and written the disabled value; it is written at
\* most once, and a knob that was absent or disabled at the start is never
\* changed, so never switched on.
C22_EnableOnlyAfterDisable ==
    /\ Cardinality(At("restore")) <= 1
    /\ (At("restore") # {}) =>
           /\ KnobObs(knob0) = "enabled"
           /\ Did("read", "ok") /\ sos_c = "1"
           /\ sync_on_suspend_reset
           /\ Did("disable", "ok")
           /\ Before("read", "disable")
           /\ Before("disable", "restore")
    /\ (KnobObs(knob0) \in {"absent", "disabled"}) =>
           /\ knob = knob0
           /\ At("restore") = {}
    /\ (KnobObs(knob) = "enabled" /\ knob # knob0) => Did("restore", "ok")

C22_Witness ==
    /\ Exited
    /\ KnobObs(knob0) = "enabled"
    /\ Did("disable", "ok")
    /\ Did("restore", "ok")
    /\ Cardinality(At("restore")) = 1
    /\ KnobObs(knob) = "enabled"

\* The actions both programs can take: everything but the reservation.
IsShared(e) == e.op # "reserve"

SharedTrace == SelectSeq(trace, IsShared)

NoAction == <<"none", "">>

\* The action that follows the shared actions h and their outcomes, for the
\* supplied device list taken in forward order and the knob as it was at the
\* start. Nothing in it depends on which program runs.
Canon(h) ==
    IF h = <<>> THEN <<"detect", "">>
    ELSE LET e == h[Len(h)]
             n == Cardinality({k \in DOMAIN h : h[k].op = "suspend"})
             disabled == \E k \in DOMAIN h : h[k].op = "disable" /\ h[k].res = "ok"
         IN  CASE e.op = "detect" ->
                    IF e.res = "ok" THEN <<"read", "">> ELSE <<"priority", "">>
               [] e.op = "read" ->
                    IF e.res # "ok" THEN NoAction
                    ELSE IF knob0[1] = "1" THEN <<"disable", "">>
                    ELSE IF knob0[1] = "0" THEN <<"priority", "">>
                    ELSE NoAction
               [] e.op = "disable" ->
                    IF e.res = "ok" THEN <<"priority", "">> ELSE NoAction
               [] e.op = "priority" -> <<"sync", "">>
               [] e.op \in {"sync", "suspend"} ->
                    IF n < Len(Supplied) THEN <<"suspend", Supplied[n + 1]>>
                    ELSE <<"s2ram", "">>
               [] e.op = "s2ram" ->
                    IF e.res = "ok" /\ disabled THEN <<"restore", "">>
                    ELSE NoAction
               [] OTHER -> NoAction

\* Every shared action taken so far is the one Canon gives for what came
\* before it, and a run that has ended had no action left to take, or ended
\* on the failed open of the knob that follows a successful access().
FollowsCanon ==
    /\ \A k \in DOMAIN SharedTrace :
           <<SharedTrace[k].op, SharedTrace[k].arg>> =
               Canon(SubSeq(SharedTrace, 1, k - 1))
    /\ Exited =>
           \/ Canon(SharedTrace) = NoAction
           \/ /\ SharedTrace # <<>>
              /\ SharedTrace[Len(SharedTrace)] = Event("detect", "", "ok")

\* C23 as stated: for every forward-order device list, the empty one
\* included, both programs take the same shared actions (every run with
\* reverse = false whose reservation did not fail follows Canon).
C23_SameActionsAsStated ==
    (~FlagGiven /\ ~ReservationFailed) => FollowsCanon

\* C23: for every forward-order device list of at least one name, the same
\* knob and the same outcomes of the external calls, cryptroot-suspend and
\* cryptsetup-suspend with reverse = false take the same sequence of actions
\* on the knob, the priority, the sync, the devices and the power-state file:
\* each run whose reservation did not fail follows the one function Canon.
C23_SameActions ==
    (~FlagGiven /\ Len(Supplied) >= 1 /\ ~ReservationFailed) => FollowsCanon

C23_Witness ==
    /\ Exited
    /\ prog = "cryptsetup" /\ ~FlagGiven
    /\ Did("reserve", "ok")
    /\ Supplied = <<"ctest2", "ctest1">>
    /\ Len(AttemptEvents) = 2
    /\ AttemptEvents[1].res = "suspfail" /\ AttemptEvents[2].res = "ok"
    /\ Did("disable", "ok") /\ Did("restore", "ok")
    /\ Len(SharedTrace) = 9

====
